---- MODULE Spec2Model ----
(***************************************************************************)
(* The Stream Reader of caronte: GetConnectionPayload merges the client    *)
(* and the server ConnectionStream documents of one connection into an     *)
(* ordered list of Payloads (connection_streams_controller, kept in        *)
(* src/frontend/src/validation.js lines 10-236).                           *)
(*                                                                         *)
(* One behaviour is one stored connection and one query; the call runs one *)
(* loop iteration per step and may be retried once on the same data.       *)
(***************************************************************************)
EXTENDS Integers, Sequences, FiniteSets, TLC

(***************************************************************************)
(* Bounds of the model.                                                    *)
(***************************************************************************)
MaxDocs == 2
MaxPayloadLen == 2
MaxTime == 2
MaxPatterns == 2
MaxMatchBytes == 3
MaxSkip == 2
MaxLimit == 2
MaxCalls == 2

(***************************************************************************)
(* Program constants.  Skip, Limit and the three running indexes are       *)
(* uint64 in the code; the model keeps them unsigned and wrapping, with    *)
(* the widest modulus whose sums TLC's integers can hold.                  *)
(***************************************************************************)
DefaultQueryFormatLimit == 8024
Uint64Modulus == 1073741824

ConnectionID == 1
ZeroID == 0

PatternIds == 1..MaxPatterns
Times == 1..MaxTime
Formats == {"default", "hex"}

(***************************************************************************)
(* Unsigned arithmetic.                                                    *)
(***************************************************************************)
ToUint64(n) == n % Uint64Modulus
AddUint64(a, b) == (a + b) % Uint64Modulus
SubUint64(a, b) == (a - b) % Uint64Modulus

(***************************************************************************)
(* Sequence helpers.                                                       *)
(***************************************************************************)
SortedSeq(S) ==
    CHOOSE s \in [1..Cardinality(S) -> S] :
        \A i \in 1..(Cardinality(S) - 1) : s[i] < s[i + 1]

RECURSIVE Flatten(_)
Flatten(ss) == IF ss = <<>> THEN <<>> ELSE Head(ss) \o Flatten(Tail(ss))

\* Every order in which the keys of a Go map can be visited.
Orders(S) ==
    {o \in [1..Cardinality(S) -> S] :
        \A i, j \in 1..Cardinality(S) : i # j => o[i] # o[j]}

(***************************************************************************)
(* The persisted documents.  A document is a ConnectionStream; the zero    *)
(* value is what a find that matches nothing leaves in `result`.           *)
(***************************************************************************)
NoMatches == [p \in {} |-> <<>>]

ZeroStream ==
    [ID |-> ZeroID, ConnectionID |-> ZeroID, FromClient |-> FALSE,
     DocumentIndex |-> 0, Payload |-> <<>>, BlocksIndexes |-> <<>>,
     BlocksTimestamps |-> <<>>, BlocksLoss |-> <<>>,
     PatternMatches |-> NoMatches]

\* The bytes of a side are tagged by side and flow-global offset, so that
\* any reordering, loss or duplication of bytes is visible.
ByteAt(fromClient, offset) == (IF fromClient THEN 16 ELSE 32) + offset

DocShapes ==
    UNION {{[len |-> L, idx |-> SortedSeq({0} \cup S)] : S \in SUBSET (1..(L - 1))}
             : L \in 1..MaxPayloadLen}

SideLayouts == UNION {[1..n -> DocShapes] : n \in 0..MaxDocs}

RECURSIVE BytesBefore(_, _)
BytesBefore(lay, d) ==
    IF d <= 1 THEN 0 ELSE BytesBefore(lay, d - 1) + lay[d - 1].len

RECURSIVE BlocksBefore(_, _)
BlocksBefore(lay, d) ==
    IF d <= 1 THEN 0 ELSE BlocksBefore(lay, d - 1) + Len(lay[d - 1].idx)

TotalBytes(lay) == BytesBefore(lay, Len(lay) + 1)
TotalBlocks(lay) == BlocksBefore(lay, Len(lay) + 1)

MonotoneTimes(n) ==
    {t \in [1..n -> Times] : \A i \in 1..(n - 1) : t[i] <= t[i + 1]}

\* Stored ranges <<s, e>> of a side of T bytes: s is inside the side,
\* e - s >= minLen.
Ranges(T, minLen) ==
    {r \in (0..(T - 1)) \X (0..T) : r[1] + minLen <= r[2]}

\* Per pattern id, the list of its ranges over the whole side (at most one).
SideMatches(T, minLen) ==
    [PatternIds -> {<<>>} \cup {<<r>> : r \in Ranges(T, minLen)}]

\* A range is written into the first document that holds its start offset.
DocMatches(sideMatches, base, len) ==
    LET mine(p) == SelectSeq(sideMatches[p],
                             LAMBDA r : base <= r[1] /\ r[1] < base + len)
        keys == {p \in PatternIds : mine(p) # <<>>}
    IN  [p \in keys |-> mine(p)]

Document(fromClient, lay, d, times, lossOdd, sideMatches) ==
    LET base == BytesBefore(lay, d)
        blk0 == BlocksBefore(lay, d)
        n == Len(lay[d].idx)
    IN  [ID |-> 2 * d - (IF fromClient THEN 1 ELSE 0),
         ConnectionID |-> ConnectionID,
         FromClient |-> fromClient,
         DocumentIndex |-> d - 1,
         Payload |-> [i \in 1..lay[d].len |-> ByteAt(fromClient, base + i - 1)],
         BlocksIndexes |-> lay[d].idx,
         BlocksTimestamps |-> [k \in 1..n |-> times[blk0 + k]],
         BlocksLoss |-> [k \in 1..n |-> ((blk0 + k) % 2 = 1) = lossOdd],
         PatternMatches |-> DocMatches(sideMatches, base, lay[d].len)]

SideDocuments(fromClient, lay, times, lossOdd, sideMatches) ==
    {Document(fromClient, lay, d, times, lossOdd, sideMatches) : d \in 1..Len(lay)}

NoSideMatches == [p \in PatternIds |-> <<>>]

\* Stores that vary the layout and the timestamps of both sides and hold no
\* pattern match.  The loss flags alternate along each side.
MergeStores ==
    UNION {UNION {{SideDocuments(TRUE, cl, ct, TRUE, NoSideMatches)
                     \cup SideDocuments(FALSE, sl, st, FALSE, NoSideMatches)
                       : ct \in MonotoneTimes(TotalBlocks(cl)),
                         st \in MonotoneTimes(TotalBlocks(sl))}
                   : cl \in SideLayouts} : sl \in SideLayouts}

\* Stores that vary the layout and the pattern matches of one side of at
\* most MaxMatchBytes bytes, beside another side of at most one block; all
\* blocks carry the same timestamp.
MatchLayouts == {lay \in SideLayouts : TotalBytes(lay) <= MaxMatchBytes}
OtherLayouts == {lay \in SideLayouts : TotalBlocks(lay) <= 1 /\ TotalBytes(lay) <= 1}

MatchStores(minLen) ==
    UNION {UNION {UNION {{SideDocuments(side, lay, [k \in 1..TotalBlocks(lay) |-> 1], TRUE, sm)
                            \cup SideDocuments(~side, ol, [k \in 1..TotalBlocks(ol) |-> 1],
                                               TRUE, NoSideMatches)
                              : sm \in SideMatches(TotalBytes(lay), minLen)}
                          : lay \in MatchLayouts} : ol \in OtherLayouts} : side \in BOOLEAN}

MergeQueries ==
    [Format : {"default"}, Skip : 0..MaxSkip, Limit : 0..MaxLimit]

MatchQueries ==
    [Format : Formats, Skip : 0..MaxSkip, Limit : {0}]

Inputs(minLen) ==
    (MergeStores \X MergeQueries) \cup (MatchStores(minLen) \X MatchQueries)

\* A row whose three block arrays do not have one length: one of
\* blocks_timestamps, blocks_loss is one element longer or shorter than
\* blocks_indexes.
Corruptions == {"timestampsLong", "timestampsShort", "lossLong", "lossShort"}

DropLast(seq) == SubSeq(seq, 1, Len(seq) - 1)

Corrupt(d, how) ==
    CASE how = "timestampsLong" ->
             [d EXCEPT !.BlocksTimestamps = Append(@, MaxTime)]
      [] how = "timestampsShort" ->
             [d EXCEPT !.BlocksTimestamps = DropLast(@)]
      [] how = "lossLong" ->
             [d EXCEPT !.BlocksLoss = Append(@, FALSE)]
      [] how = "lossShort" ->
             [d EXCEPT !.BlocksLoss = DropLast(@)]

\* Stores of every layout, all blocks of one timestamp, one row corrupted.
SameTimeStores ==
    UNION {{SideDocuments(TRUE, cl, [k \in 1..TotalBlocks(cl) |-> 1], TRUE, NoSideMatches)
              \cup SideDocuments(FALSE, sl, [k \in 1..TotalBlocks(sl) |-> 1], FALSE,
                                 NoSideMatches)
                : cl \in SideLayouts} : sl \in SideLayouts}

CorruptStores ==
    UNION {UNION {{(s \ {d}) \cup {Corrupt(d, how)} : how \in Corruptions}
                    : d \in s} : s \in SameTimeStores}

CorruptQueries == [Format : {"default"}, Skip : {0}, Limit : {0, MaxLimit}]

CorruptInputs == CorruptStores \X CorruptQueries

\* A row without a block: no payload and three empty block arrays.
EmptyShape == [len |-> 0, idx |-> <<>>]

SparseLayouts == UNION {[1..n -> DocShapes \cup {EmptyShape}] : n \in 0..MaxDocs}

\* Stores whose rows may have no block; all blocks carry one timestamp.
SparseStores ==
    UNION {{SideDocuments(TRUE, cl, [k \in 1..TotalBlocks(cl) |-> 1], TRUE, NoSideMatches)
              \cup SideDocuments(FALSE, sl, [k \in 1..TotalBlocks(sl) |-> 1], FALSE,
                                 NoSideMatches)
                : cl \in SparseLayouts} : sl \in SparseLayouts}

SparseInputs == SparseStores \X CorruptQueries

\* Requests whose skip + limit does not fit the unsigned type.
OverflowQueries ==
    [Format : {"default"}, Skip : {1, Uint64Modulus - 1},
     Limit : {1, Uint64Modulus - 1}]

OverflowInputs == SameTimeStores \X OverflowQueries

(***************************************************************************)
(* External collaborators: the format decoder and the parser family.       *)
(***************************************************************************)
HexDigits(b) == <<b \div 16, b % 16>>

\* "hex" writes two digits per byte; "default" passes the bytes through.
DecodeBytes(bytes, fmt) ==
    IF fmt = "hex"
    THEN Flatten([i \in 1..Len(bytes) |-> HexDigits(bytes[i])])
    ELSE bytes

NoMetadata == [type |-> "nil", content |-> <<>>]

\* The parser family is opaque: its result is tagged with what it was given.
Parse(content) == [type |-> "parsed", content |-> content]

VARIABLES
    store,                  \* the persisted ConnectionStream documents
    query,                  \* the QueryFormat of the request
    pc,                     \* "idle", "loop", "returned", "storePanic", "indexPanic"
    calls,                  \* number of calls started on this data
    previous,               \* {} or {the list returned by the previous call}
    format,                 \* the callee's copy of the QueryFormat
    clientIndex, serverIndex, globalIndex,
    clientBlocksIndex, serverBlocksIndex,
    clientDocumentIndex, serverDocumentIndex,
    clientStream, serverStream,
    heap,                   \* the Payload objects allocated by the call
    payload,                \* pointer (index into heap) of the last Payload, 0 = nil
    payloads,               \* pointers, the list to return
    payloadsBuffer,         \* pointers, the current metadata chunk
    contentChunkBuffer,
    lastContentSlice,
    sideChanged, lastClient, lastServer,
    merged,                 \* history: one entry per merged block, in merge order
    parserCalls             \* history: one entry per call of parsers.Parse

locals ==
    <<format, clientIndex, serverIndex, globalIndex, clientBlocksIndex,
      serverBlocksIndex, clientDocumentIndex, serverDocumentIndex, clientStream,
      serverStream, heap, payload, payloads, payloadsBuffer, contentChunkBuffer,
      lastContentSlice, sideChanged, lastClient, lastServer, merged, parserCalls>>

reader == <<store, query, pc, calls, previous, locals>>

(***************************************************************************)
(* The frontend: the validation helpers and the state of the components    *)
(* ConfigurationPane, PcapPane (src/unnamed/part_001) and Connections      *)
(* (src/frontend/src/views/Connections.js).  A JavaScript string is a      *)
(* sequence of one-character strings; null and undefined are one value,    *)
(* and a field that holds an object or null is a sequence of at most one   *)
(* element.                                                                *)
(***************************************************************************)
null == "null"

VARIABLES
    port, required,         \* the arguments of validation.isValidPort
    portResult              \* <<>> before the call, then <<its result>>

validationVars == <<port, required, portResult>>

VARIABLES
    settings,               \* ConfigurationPane.state.settings
    serverAddressError, flagRegexError,
    setupStatusCode,
    setupRequests,          \* the POST /setup requests in flight (their bodies)
    configured              \* props.onConfigured has been called

configurationVars ==
    <<settings, serverAddressError, flagRegexError, setupStatusCode,
      setupRequests, configured>>

VARIABLES
    uploadSelectedFile,     \* <<>> when null or undefined, else <<the File>>
    isUploadFileValid, isUploadFileFocused, uploadFlushAll,
    isFileValid, isFileFocused, fileValue, processFlushAll, deleteOriginalFile,
    uploadStatusCode, processStatusCode, sessionsStatusCode,
    pcapRequests            \* the requests of PcapPane in flight

pcapVars ==
    <<uploadSelectedFile, isUploadFileValid, isUploadFileFocused, uploadFlushAll,
      isFileValid, isFileFocused, fileValue, processFlushAll, deleteOriginalFile,
      uploadStatusCode, processStatusCode, sessionsStatusCode, pcapRequests>>

VARIABLES
    locationSearch,         \* props.location.search, a sequence of tokens
    loading, loaded,
    connections,            \* the rows shown, each row its id
    firstConnection, lastConnection,    \* <<>> when null, else <<row>>
    rules,
    queryString,            \* <<>> when null, else <<search string>>
    selected,               \* a connection is selected
    loads                   \* the loadConnections calls that are at an await

\* ConnectionContent: props.connection (the id, or nothing), state.format,
\* state.loading, state.connectionContent and the /api/streams requests
\* that await their response.
VARIABLES
    connection, contentFormat, contentLoading, connectionContent, streamRequests

contentVars ==
    <<connection, contentFormat, contentLoading, connectionContent, streamRequests>>

connectionsVars ==
    <<locationSearch, loading, loaded, connections, firstConnection,
      lastConnection, rules, queryString, selected, loads>>

frontend == <<validationVars, configurationVars, pcapVars, connectionsVars, contentVars>>

vars == <<reader, frontend>>

\* The state a component's constructor leaves.
ConfigurationConstructed ==
    /\ settings = [config |-> [server_address |-> "", flag_regex |-> <<>>,
                               auth_required |-> FALSE]]
    /\ serverAddressError = null /\ flagRegexError = null
    /\ setupStatusCode = null
    /\ setupRequests = <<>>
    /\ configured = FALSE

PcapConstructed ==
    /\ uploadSelectedFile = <<>>
    /\ isUploadFileValid = TRUE /\ isUploadFileFocused = FALSE
    /\ uploadFlushAll = FALSE
    /\ isFileValid = TRUE /\ isFileFocused = FALSE
    /\ fileValue = <<>>
    /\ processFlushAll = FALSE /\ deleteOriginalFile = FALSE
    /\ uploadStatusCode = null /\ processStatusCode = null
    /\ sessionsStatusCode = null
    /\ pcapRequests = <<>>

ConnectionsConstructed ==
    /\ loading = FALSE /\ loaded = FALSE
    /\ connections = <<>>
    /\ firstConnection = <<>> /\ lastConnection = <<>>
    /\ rules = null
    /\ queryString = <<>>
    /\ loads = <<>>

\* No component is mounted and no validation is asked for.
ValidationIdle == port = <<>> /\ required = FALSE /\ portResult = <<>>
ConnectionsUnmounted == ConnectionsConstructed /\ locationSearch = <<>> /\ selected = FALSE
\* ConnectionContent as its constructor leaves it, given no connection.
ContentConstructed ==
    /\ connection = <<>>
    /\ contentFormat = "default"
    /\ contentLoading = FALSE
    /\ connectionContent = <<>>
    /\ streamRequests = <<>>

FrontendIdle ==
    /\ ValidationIdle
    /\ ConfigurationConstructed
    /\ PcapConstructed
    /\ ConnectionsUnmounted
    /\ ContentConstructed

(***************************************************************************)
(* getConnectionStream: the first document matching the filter, or the     *)
(* zero value when none matches.  A failed read is handled by the caller   *)
(* of this operator (the read panics).                                     *)
(***************************************************************************)
\* A read that ignores document_index: the first row of the side, always.
getConnectionStreamFirst(fromClient, documentIndex) ==
    LET found == {d \in store : /\ d.ConnectionID = ConnectionID
                                /\ d.FromClient = fromClient
                                /\ d.DocumentIndex = 0}
    IN  IF found = {} THEN ZeroStream ELSE CHOOSE d \in found : TRUE

getConnectionStream(fromClient, documentIndex) ==
    LET found == {d \in store : /\ d.ConnectionID = ConnectionID
                                /\ d.FromClient = fromClient
                                /\ d.DocumentIndex = documentIndex}
    IN  IF found = {} THEN ZeroStream ELSE CHOOSE d \in found : TRUE

(***************************************************************************)
(* findMatchesBetween.  `order` is the order in which the range loop       *)
(* visits the keys of the patternMatches map.                              *)
(***************************************************************************)
SliceSkipped(slice, from, to) == from > slice[2] \/ to <= slice[1]

\* RegexSliceStart without the test that keeps the subtraction from wrapping.
RegexSliceStartUnguarded(slice, from) == SubUint64(slice[1], from)

RegexSliceStart(slice, from) ==
    IF from > slice[1] THEN 0 ELSE SubUint64(slice[1], from)

RegexSliceEnd(slice, from, to) ==
    IF to <= slice[2] THEN SubUint64(to, from) ELSE SubUint64(slice[2], from)

MatchesOfSlices(slices, from, to) ==
    LET kept == SelectSeq(slices, LAMBDA s : ~SliceSkipped(s, from, to))
    IN  [i \in 1..Len(kept) |->
            [From |-> RegexSliceStart(kept[i], from),
             To |-> RegexSliceEnd(kept[i], from, to)]]

findMatchesBetween(patternMatches, from, to, order) ==
    Flatten([i \in 1..Len(order) |-> MatchesOfSlices(patternMatches[order[i]], from, to)])


(***************************************************************************)
(* The block under a side's cursor.                                        *)
(***************************************************************************)
BlockStart(stream, blocksIndex) == stream.BlocksIndexes[blocksIndex + 1]

\* BlockEnd that never looks at the next block's start.
BlockEndOfPayload(stream, blocksIndex) == Len(stream.Payload)

BlockEnd(stream, blocksIndex) ==
    IF blocksIndex < Len(stream.BlocksIndexes) - 1
    THEN stream.BlocksIndexes[blocksIndex + 2]
    ELSE Len(stream.Payload)

BlockSize(stream, blocksIndex) ==
    ToUint64(BlockEnd(stream, blocksIndex) - BlockStart(stream, blocksIndex))

ContentSlice(stream, blocksIndex) ==
    SubSeq(stream.Payload, BlockStart(stream, blocksIndex) + 1,
           BlockEnd(stream, blocksIndex))

PayloadIndex(stream, blocksIndex) == BlockStart(stream, blocksIndex)

MatchesFor(stream, from, to, order) ==
    findMatchesBetween(stream.PatternMatches, from, to, order)

NewPayload(fromClient, stream, blocksIndex, sideIndex, order) ==
    [FromClient |-> fromClient,
     Content |-> DecodeBytes(ContentSlice(stream, blocksIndex), format.Format),
     Metadata |-> NoMetadata,
     IsMetadataContinuation |-> FALSE,
     Index |-> PayloadIndex(stream, blocksIndex),
     Timestamp |-> stream.BlocksTimestamps[blocksIndex + 1],
     IsRetransmitted |-> stream.BlocksLoss[blocksIndex + 1],
     RegexMatches |-> MatchesFor(stream, sideIndex,
                                 AddUint64(sideIndex, BlockSize(stream, blocksIndex)),
                                 order)]

hasClientBlocks == clientBlocksIndex < Len(clientStream.BlocksIndexes)
hasServerBlocks == serverBlocksIndex < Len(serverStream.BlocksIndexes)

LoopCondition == clientStream.ID # ZeroID \/ serverStream.ID # ZeroID

\* Index expressions of one iteration that are outside their slice; each of
\* them is a run-time panic (index out of range).
ComparisonOutOfRange ==
    hasClientBlocks /\ hasServerBlocks /\
        (\/ ~(clientBlocksIndex < Len(clientStream.BlocksTimestamps))
         \/ ~(serverBlocksIndex < Len(serverStream.BlocksTimestamps)))

FieldOutOfRange(stream, blocksIndex) ==
    \/ ~(blocksIndex < Len(stream.BlocksIndexes))
    \/ ~(blocksIndex < Len(stream.BlocksTimestamps))
    \/ ~(blocksIndex < Len(stream.BlocksLoss))

\* NextIsClient with a strict comparison: the server wins a tie.
NextIsClientStrict ==
    hasClientBlocks /\
        (~hasServerBlocks \/
            clientStream.BlocksTimestamps[clientBlocksIndex + 1]
                < serverStream.BlocksTimestamps[serverBlocksIndex + 1])

\* The condition of the if that picks the client block.
NextIsClient ==
    hasClientBlocks /\
        (~hasServerBlocks \/
            clientStream.BlocksTimestamps[clientBlocksIndex + 1]
                <= serverStream.BlocksTimestamps[serverBlocksIndex + 1])

\* SideChanged that never reports a flip.
SideChangedNever(fromClient) == FALSE

\* Lines 122 and 146: the value sideChanged takes when the block picked is
\* of side fromClient.
SideChanged(fromClient) == IF fromClient THEN lastServer ELSE lastClient

(***************************************************************************)
(* updateMetadata on the heap: every Payload of payloadsBuffer gets the    *)
(* parsed chunk, the first one is no continuation and the others are.  The *)
(* caller empties both buffers.                                            *)
(***************************************************************************)
\* IsContinuation that never clears the flag of the first Payload.
IsContinuationAlways(buffer, ptr) == TRUE

IsContinuation(buffer, ptr) == buffer[1] # ptr

updateMetadata(h, buffer, chunk) ==
    [i \in 1..Len(h) |->
        IF \E k \in 1..Len(buffer) : buffer[k] = i
        THEN [h[i] EXCEPT !.Metadata = Parse(chunk),
                          !.IsMetadataContinuation = IsContinuation(buffer, i)]
        ELSE h[i]]

\* Whether the block that moved globalIndex to `index` is appended to the
\* list, and whether the call returns after it.
PassedSkipInclusive(index) == index >= format.Skip
PassedSkip(index) == index > format.Skip
PassedLimit(index) == index > AddUint64(format.Skip, format.Limit)

\* The list a return statement hands to the caller.
Result == [i \in 1..Len(payloads) |-> heap[payloads[i]]]

(***************************************************************************)
(* A panic unwinds the call: its locals are gone and nothing is returned.  *)
(***************************************************************************)
ZeroLocalsOf(q) ==
    /\ format' = q
    /\ clientIndex' = 0 /\ serverIndex' = 0 /\ globalIndex' = 0
    /\ clientBlocksIndex' = 0 /\ serverBlocksIndex' = 0
    /\ clientDocumentIndex' = 0 /\ serverDocumentIndex' = 0
    /\ clientStream' = ZeroStream /\ serverStream' = ZeroStream
    /\ heap' = <<>> /\ payload' = 0 /\ payloads' = <<>>
    /\ payloadsBuffer' = <<>> /\ contentChunkBuffer' = <<>>
    /\ lastContentSlice' = <<>>
    /\ sideChanged' = FALSE /\ lastClient' = FALSE /\ lastServer' = FALSE
    /\ merged' = <<>> /\ parserCalls' = <<>>

ZeroLocals == ZeroLocalsOf(query)

Panic(kind) == pc' = kind /\ ZeroLocals

EffectiveLimit(limit) == IF limit <= 0 THEN DefaultQueryFormatLimit ELSE limit

\* Lines 72-95: the locals, the default limit and the two first reads.
StartCallWith(q) ==
    \E storeOk \in BOOLEAN :
        IF ~storeOk
        THEN pc' = "storePanic" /\ ZeroLocalsOf(q)
        ELSE /\ pc' = "loop"
             /\ format' = [q EXCEPT !.Limit = EffectiveLimit(q.Limit)]
             /\ clientIndex' = 0 /\ serverIndex' = 0 /\ globalIndex' = 0
             /\ clientBlocksIndex' = 0 /\ serverBlocksIndex' = 0
             /\ clientDocumentIndex' = 0 /\ serverDocumentIndex' = 0
             /\ clientStream' = getConnectionStream(TRUE, 0)
             /\ serverStream' = getConnectionStream(FALSE, 0)
             /\ heap' = <<>> /\ payload' = 0 /\ payloads' = <<>>
             /\ payloadsBuffer' = <<>> /\ contentChunkBuffer' = <<>>
             /\ lastContentSlice' = <<>>
             /\ sideChanged' = FALSE /\ lastClient' = FALSE /\ lastServer' = FALSE
             /\ merged' = <<>> /\ parserCalls' = <<>>

StartCall == StartCallWith(query)

Call ==
    /\ pc = "idle"
    /\ StartCall
    /\ UNCHANGED <<store, query, calls, previous, frontend>>

\* The same request again, on the same persisted data.
Retry ==
    /\ pc = "returned"
    /\ calls < MaxCalls
    /\ calls' = calls + 1
    /\ previous' = {Result}
    /\ StartCall
    /\ UNCHANGED <<store, query, frontend>>

\* The request of a call that left the limit out, sent again with the
\* default limit spelled out, on the same persisted data.
WithDefaultLimit(q) == [q EXCEPT !.Limit = DefaultQueryFormatLimit]

RetryWithDefaultLimit ==
    /\ pc = "returned"
    /\ calls < MaxCalls
    /\ query.Limit = 0
    /\ calls' = calls + 1
    /\ previous' = {Result}
    /\ query' = WithDefaultLimit(query)
    /\ StartCallWith(WithDefaultLimit(query))
    /\ UNCHANGED <<store, frontend>>

\* Line 96 false, line 194.
Return ==
    /\ pc = "loop"
    /\ ~LoopCondition
    /\ pc' = "returned"
    /\ UNCHANGED <<store, query, calls, previous, locals, frontend>>


(***************************************************************************)
(* One iteration of the loop, lines 96-192.                                *)
(***************************************************************************)
LoopIteration ==
    /\ pc = "loop"
    /\ LoopCondition
    /\ UNCHANGED <<store, query, calls, previous, frontend>>
    /\ IF \/ ComparisonOutOfRange
          \/ IF NextIsClient
             THEN FieldOutOfRange(clientStream, clientBlocksIndex)
             ELSE FieldOutOfRange(serverStream, serverBlocksIndex)
       THEN Panic("indexPanic")
       ELSE
       LET fromClient == NextIsClient
           stream == IF fromClient THEN clientStream ELSE serverStream
           blocksIndex == IF fromClient THEN clientBlocksIndex ELSE serverBlocksIndex
           sideIndex == IF fromClient THEN clientIndex ELSE serverIndex
           size == BlockSize(stream, blocksIndex)
           slice == ContentSlice(stream, blocksIndex)
           changed == SideChanged(fromClient)
           \* lines 117-119 and 141-143
           cIndex == IF fromClient THEN AddUint64(clientIndex, size) ELSE clientIndex
           sIndex == IF fromClient THEN serverIndex ELSE AddUint64(serverIndex, size)
           gIndex == AddUint64(globalIndex, size)
           cBlocks == IF fromClient THEN clientBlocksIndex + 1 ELSE clientBlocksIndex
           sBlocks == IF fromClient THEN serverBlocksIndex ELSE serverBlocksIndex + 1
           \* lines 149-158
           readClient == ~(cBlocks < Len(clientStream.BlocksIndexes))
           readServer == ~(sBlocks < Len(serverStream.BlocksIndexes))
           cDoc == IF readClient THEN clientDocumentIndex + 1 ELSE clientDocumentIndex
           sDoc == IF readServer THEN serverDocumentIndex + 1 ELSE serverDocumentIndex
           cStream == IF readClient THEN getConnectionStream(TRUE, cDoc) ELSE clientStream
           sStream == IF readServer THEN getConnectionStream(FALSE, sDoc) ELSE serverStream
           ptr == Len(heap) + 1
           \* lines 173-177
           heap1 == IF changed
                    THEN updateMetadata(heap, payloadsBuffer, contentChunkBuffer)
                    ELSE heap
           buffer1 == Append(IF changed THEN <<>> ELSE payloadsBuffer, ptr)
           chunk1 == (IF changed THEN <<>> ELSE contentChunkBuffer) \o slice
           call1 == IF changed
                    THEN <<[Chunk |-> contentChunkBuffer, Buffer |-> payloadsBuffer]>>
                    ELSE <<>>
           \* lines 179-181
           ended == cStream.ID = ZeroID /\ sStream.ID = ZeroID
           call2 == IF ended THEN <<[Chunk |-> chunk1, Buffer |-> buffer1]>> ELSE <<>>
           \* lines 187-191
           over == PassedLimit(gIndex)
       IN  \E order \in Orders(DOMAIN stream.PatternMatches), storeOk \in BOOLEAN :
             IF (readClient \/ readServer) /\ ~storeOk
             THEN Panic("storePanic")
             ELSE
             LET new == NewPayload(fromClient, stream, blocksIndex, sideIndex, order)
                 heap2 == Append(heap1, new)
                 heap3 == IF ended THEN updateMetadata(heap2, buffer1, chunk1) ELSE heap2
                 buffer2 == IF ended THEN <<>> ELSE buffer1
                 chunk2 == IF ended THEN <<>> ELSE chunk1
                 call3 == IF over THEN <<[Chunk |-> chunk2, Buffer |-> buffer2]>> ELSE <<>>
             IN  /\ clientIndex' = cIndex
                 /\ serverIndex' = sIndex
                 /\ globalIndex' = gIndex
                 /\ clientBlocksIndex' = (IF readClient THEN 0 ELSE cBlocks)
                 /\ serverBlocksIndex' = (IF readServer THEN 0 ELSE sBlocks)
                 /\ clientDocumentIndex' = cDoc
                 /\ serverDocumentIndex' = sDoc
                 /\ clientStream' = cStream
                 /\ serverStream' = sStream
                 /\ payload' = ptr
                 /\ lastContentSlice' = slice
                 /\ sideChanged' = changed
                 /\ lastClient' = fromClient
                 /\ lastServer' = ~fromClient
                 /\ payloads' = (IF PassedSkip(gIndex) THEN Append(payloads, ptr)
                                                        ELSE payloads)
                 /\ heap' = (IF over THEN updateMetadata(heap3, buffer2, chunk2) ELSE heap3)
                 /\ payloadsBuffer' = (IF over THEN <<>> ELSE buffer2)
                 /\ contentChunkBuffer' = (IF over THEN <<>> ELSE chunk2)
                 /\ merged' = Append(merged,
                                     [FromClient |-> fromClient,
                                      DocumentIndex |-> stream.DocumentIndex,
                                      Block |-> blocksIndex,
                                      Raw |-> slice,
                                      From |-> sideIndex,
                                      End |-> gIndex])
                 /\ parserCalls' = parserCalls \o call1 \o call2 \o call3
                 /\ pc' = (IF over THEN "returned" ELSE "loop")
                 /\ UNCHANGED format

ReaderInit(inputs) ==
    /\ \E in \in inputs : store = in[1] /\ query = in[2]
    /\ pc = "idle"
    /\ calls = 1
    /\ previous = {}
    /\ format = query
    /\ clientIndex = 0 /\ serverIndex = 0 /\ globalIndex = 0
    /\ clientBlocksIndex = 0 /\ serverBlocksIndex = 0
    /\ clientDocumentIndex = 0 /\ serverDocumentIndex = 0
    /\ clientStream = ZeroStream /\ serverStream = ZeroStream
    /\ heap = <<>> /\ payload = 0 /\ payloads = <<>>
    /\ payloadsBuffer = <<>> /\ contentChunkBuffer = <<>>
    /\ lastContentSlice = <<>>
    /\ sideChanged = FALSE /\ lastClient = FALSE /\ lastServer = FALSE
    /\ merged = <<>> /\ parserCalls = <<>>

InitWith(inputs) == ReaderInit(inputs) /\ FrontendIdle

\* No request reaches the Stream Reader.
ReaderIdle ==
    ReaderInit({<<{}, [Format |-> "default", Skip |-> 0, Limit |-> 0]>>})

\* Stored ranges are non-empty (s < e).
Init == InitWith(Inputs(1))

\* The same inputs, and empty stored ranges (s = e) as well.
InitWide == InitWith(Inputs(0))

Next == Call \/ LoopIteration \/ Return \/ Retry

Spec == Init /\ [][Next]_vars

SpecWide == InitWide /\ [][Next]_vars

\* Requests without a limit, repeated with limit = DefaultQueryFormatLimit.
LimitlessInputs == {in \in Inputs(1) : in[2].Limit = 0}

InitLimitless == InitWith(LimitlessInputs)

NextLimitless == Call \/ LoopIteration \/ Return \/ RetryWithDefaultLimit

SpecLimitless == InitLimitless /\ [][NextLimitless]_vars

\* Stores that hold one row with block arrays of different lengths.
InitCorrupt == InitWith(CorruptInputs)

SpecCorrupt == InitCorrupt /\ [][Next]_vars

\* Stores that hold rows without a block.
InitSparse == InitWith(SparseInputs)

SpecSparse == InitSparse /\ [][Next]_vars

\* Requests at the upper end of the unsigned range.
InitOverflow == InitWith(OverflowInputs)

SpecOverflow == InitOverflow /\ [][Next]_vars


(***************************************************************************)
(* validation.isValidPort (src/frontend/src/validation.js line 4).         *)
(* parseInt(port, 10) reads an optional sign and the longest run of        *)
(* decimal digits that follows, and is NaN when there is no digit; every   *)
(* comparison with NaN is false.                                           *)
(***************************************************************************)
MaxPortLen == 5

DigitChars == {"0", "3", "5", "6"}
PortChars == DigitChars \cup {"-", "x"}

PortInputs == UNION {[1..n -> PortChars] : n \in 0..MaxPortLen}

DigitValue(c) ==
    CASE c = "0" -> 0 [] c = "3" -> 3 [] c = "5" -> 5 [] c = "6" -> 6

RECURSIVE LeadingDigits(_)
LeadingDigits(str) ==
    IF str = <<>> \/ Head(str) \notin DigitChars
    THEN <<>>
    ELSE <<Head(str)>> \o LeadingDigits(Tail(str))

RECURSIVE DecimalValue(_)
DecimalValue(digits) ==
    IF digits = <<>>
    THEN 0
    ELSE 10 * DecimalValue(DropLast(digits)) + DigitValue(digits[Len(digits)])

NaN == [nan |-> TRUE, value |-> 0]
Number(n) == [nan |-> FALSE, value |-> n]

parseInt(str) ==
    LET negative == str # <<>> /\ Head(str) = "-"
        digits == LeadingDigits(IF negative THEN Tail(str) ELSE str)
    IN  IF digits = <<>>
        THEN NaN
        ELSE Number(IF negative THEN 0 - DecimalValue(digits) ELSE DecimalValue(digits))

GreaterThan(a, n) == ~a.nan /\ a.value > n
AtMost(a, n) == ~a.nan /\ a.value <= n

isValidPort(p, req) ==
    GreaterThan(parseInt(p), IF req THEN 0 ELSE 0 - 1) /\ AtMost(parseInt(p), 65565)

ValidatePort ==
    /\ portResult = <<>>
    /\ portResult' = <<isValidPort(port, required)>>
    /\ UNCHANGED <<port, required, reader, configurationVars, pcapVars, connectionsVars, contentVars>>

InitValidation ==
    /\ port \in PortInputs
    /\ required \in BOOLEAN
    /\ portResult = <<>>
    /\ ReaderIdle
    /\ ConfigurationConstructed
    /\ PcapConstructed
    /\ ConnectionsUnmounted
    /\ ContentConstructed

NextValidation == ValidatePort

SpecValidation == InitValidation /\ [][NextValidation]_vars

(***************************************************************************)
(* ConfigurationPane (src/unnamed/part_001 lines 267-412): the setup form. *)
(* The accounts table is left out: it takes no part in validateSettings.   *)
(***************************************************************************)
MaxFlagRegexLen == 9
MaxSetupRequests == 1

AddressInputs == {"", "10.0.0.1", "::1", "256.0.0.1", "caronte"}

FlagRegexInputs == {[i \in 1..n |-> "a"] : n \in 0..MaxFlagRegexLen}

\* HTTP status codes, as texts: the codes of a failed request, and 200.
StatusCodes == {"400", "500"}
OK == "200"

\* validation.isValidAddress (src/frontend/src/validation.js line 5).
isValidAddress(address) == TRUE

\* The length test of validateSettings with the limit 1.
FlagRegexEmpty(flag_regex) == Len(flag_regex) < 1

FlagRegexTooShort(flag_regex) == Len(flag_regex) < 8

validateSettings(s) ==
    isValidAddress(s.config.server_address) /\ ~FlagRegexTooShort(s.config.flag_regex)

\* updateParam with the callback of one of the three inputs.
updateParam(newSettings) ==
    /\ ~configured
    /\ settings' = newSettings
    /\ UNCHANGED <<serverAddressError, flagRegexError, setupStatusCode,
                   setupRequests, configured>>
    /\ UNCHANGED <<reader, validationVars, pcapVars, connectionsVars, contentVars>>

ChangeServerAddress ==
    \E v \in AddressInputs :
        updateParam([settings EXCEPT !.config.server_address = v])

ChangeFlagRegex ==
    \E v \in FlagRegexInputs :
        updateParam([settings EXCEPT !.config.flag_regex = v])

ChangeAuthRequired ==
    \E v \in BOOLEAN :
        updateParam([settings EXCEPT !.config.auth_required = v])

saveSettings ==
    /\ ~configured
    /\ validateSettings(settings) => Len(setupRequests) < MaxSetupRequests
    /\ serverAddressError' =
           (IF ~isValidAddress(settings.config.server_address)
            THEN "invalid ip_address" ELSE serverAddressError)
    /\ flagRegexError' =
           (IF FlagRegexTooShort(settings.config.flag_regex)
            THEN "flag_regex.length < 8" ELSE flagRegexError)
    /\ setupRequests' =
           (IF validateSettings(settings)
            THEN Append(setupRequests, settings) ELSE setupRequests)
    /\ UNCHANGED <<settings, setupStatusCode, configured>>
    /\ UNCHANGED <<reader, validationVars, pcapVars, connectionsVars, contentVars>>

Without(seq, i) == SubSeq(seq, 1, i - 1) \o SubSeq(seq, i + 1, Len(seq))

\* The then branch of the POST: props.onConfigured().
SetupAccepted ==
    \E i \in 1..Len(setupRequests) :
        /\ setupRequests' = Without(setupRequests, i)
        /\ configured' = TRUE
        /\ UNCHANGED <<settings, serverAddressError, flagRegexError, setupStatusCode>>
        /\ UNCHANGED <<reader, validationVars, pcapVars, connectionsVars, contentVars>>

\* The catch branch of the POST.
SetupRejected ==
    \E i \in 1..Len(setupRequests), status \in StatusCodes :
        /\ setupRequests' = Without(setupRequests, i)
        /\ setupStatusCode' = status
        /\ UNCHANGED <<settings, serverAddressError, flagRegexError, configured>>
        /\ UNCHANGED <<reader, validationVars, pcapVars, connectionsVars, contentVars>>

InitConfiguration ==
    /\ ConfigurationConstructed
    /\ ReaderIdle
    /\ ValidationIdle
    /\ PcapConstructed
    /\ ConnectionsUnmounted
    /\ ContentConstructed

NextConfiguration ==
    \/ ChangeServerAddress
    \/ ChangeFlagRegex
    \/ ChangeAuthRequired
    \/ saveSettings
    \/ SetupAccepted
    \/ SetupRejected

SpecConfiguration == InitConfiguration /\ [][NextConfiguration]_vars

(***************************************************************************)
(* PcapPane (src/unnamed/part_001 lines 13-251): the upload form and the   *)
(* local-file form.  The sessions table keeps its status code only.        *)
(***************************************************************************)
MaxPcapRequests == 1

pcap == <<"p", "c", "a", "p">>
pcapng == <<"p", "c", "a", "p", "n", "g">>

endsWith(str, suffix) ==
    /\ Len(str) >= Len(suffix)
    /\ SubSeq(str, Len(str) - Len(suffix) + 1, Len(str)) = suffix

\* The File objects the file input can hand over (name, MIME type).
FileInputs ==
    {[name |-> "a.pcap", type |-> <<"x", "/">> \o pcap],
     [name |-> "b.pcapng", type |-> <<"x", "/">> \o pcapng],
     [name |-> "c.pcap", type |-> <<>>]}

PathInputs == {<<>>, pcap, <<"a", ".">> \o pcapng, <<"a", ".">> \o pcap \o <<"s">>}

SessionsRequest == [url |-> "/api/pcap/sessions", body |-> <<>>]

UploadRequest ==
    [url |-> "/api/pcap/upload",
     body |-> [file |-> uploadSelectedFile[1], flush_all |-> uploadFlushAll]]

ProcessRequest ==
    [url |-> "/api/pcap/file",
     body |-> [file |-> fileValue, flush_all |-> processFlushAll,
               delete_original_file |-> deleteOriginalFile]]

Requests(url) == {i \in 1..Len(pcapRequests) : pcapRequests[i].url = url}

\* componentDidMount has called loadSessions.
PcapMounted ==
    /\ uploadSelectedFile = <<>>
    /\ isUploadFileValid = TRUE /\ isUploadFileFocused = FALSE
    /\ uploadFlushAll = FALSE
    /\ isFileValid = TRUE /\ isFileFocused = FALSE
    /\ fileValue = <<>>
    /\ processFlushAll = FALSE /\ deleteOriginalFile = FALSE
    /\ uploadStatusCode = null /\ processStatusCode = null
    /\ sessionsStatusCode = null
    /\ pcapRequests = <<SessionsRequest>>

uploadVars ==
    <<uploadSelectedFile, isUploadFileValid, isUploadFileFocused, uploadFlushAll,
      uploadStatusCode>>

processVars ==
    <<isFileValid, isFileFocused, fileValue, processFlushAll, deleteOriginalFile,
      processStatusCode>>

notPcap == <<reader, validationVars, configurationVars, connectionsVars, contentVars>>

handleUploadFileChange ==
    \E file \in {<<>>} \cup {<<f>> : f \in FileInputs} :
        /\ isUploadFileValid' =
               (file = <<>> \/ endsWith(file[1].type, pcap) \/ endsWith(file[1].type, pcapng))
        /\ isUploadFileFocused' = FALSE
        /\ uploadSelectedFile' = file
        /\ uploadStatusCode' = null
        /\ UNCHANGED <<uploadFlushAll, processVars, sessionsStatusCode, pcapRequests, notPcap>>

ChangeUploadFlushAll ==
    \E v \in BOOLEAN :
        /\ uploadFlushAll' = v
        /\ UNCHANGED <<uploadSelectedFile, isUploadFileValid, isUploadFileFocused,
                       uploadStatusCode, processVars, sessionsStatusCode,
                       pcapRequests, notPcap>>

\* The guard of uploadPcap without the validity flag.
UploadRefusedWhenNoFile == uploadSelectedFile = <<>>

UploadRefused == uploadSelectedFile = <<>> \/ ~isUploadFileValid

uploadPcap ==
    IF UploadRefused
    THEN /\ isUploadFileFocused' = TRUE
         /\ UNCHANGED <<uploadSelectedFile, isUploadFileValid, uploadFlushAll,
                        uploadStatusCode, processVars, sessionsStatusCode,
                        pcapRequests, notPcap>>
    ELSE /\ Len(pcapRequests) < MaxPcapRequests
         /\ pcapRequests' = Append(pcapRequests, UploadRequest)
         /\ UNCHANGED <<uploadVars, processVars, sessionsStatusCode, notPcap>>

\* The then branch of the upload: status, resetUpload, loadSessions.
UploadAccepted ==
    \E i \in Requests("/api/pcap/upload") :
        /\ uploadStatusCode' = OK
        /\ isUploadFileValid' = TRUE
        /\ isUploadFileFocused' = FALSE
        /\ uploadFlushAll' = FALSE
        /\ uploadSelectedFile' = <<>>
        /\ pcapRequests' = Append(Without(pcapRequests, i), SessionsRequest)
        /\ UNCHANGED <<processVars, sessionsStatusCode, notPcap>>

UploadRejected ==
    \E i \in Requests("/api/pcap/upload"), status \in StatusCodes :
        /\ uploadStatusCode' = status
        /\ pcapRequests' = Without(pcapRequests, i)
        /\ UNCHANGED <<uploadSelectedFile, isUploadFileValid, isUploadFileFocused,
                       uploadFlushAll, processVars, sessionsStatusCode, notPcap>>

handleFileChange ==
    \E file \in PathInputs :
        /\ isFileValid' = (endsWith(file, pcap) \/ endsWith(file, pcapng))
        /\ isFileFocused' = FALSE
        /\ fileValue' = file
        /\ processStatusCode' = null
        /\ UNCHANGED <<processFlushAll, deleteOriginalFile, uploadVars,
                       sessionsStatusCode, pcapRequests, notPcap>>

ChangeProcessFlushAll ==
    \E v \in BOOLEAN :
        /\ processFlushAll' = v
        /\ UNCHANGED <<isFileValid, isFileFocused, fileValue, deleteOriginalFile,
                       processStatusCode, uploadVars, sessionsStatusCode,
                       pcapRequests, notPcap>>

ChangeDeleteOriginalFile ==
    \E v \in BOOLEAN :
        /\ deleteOriginalFile' = v
        /\ UNCHANGED <<isFileValid, isFileFocused, fileValue, processFlushAll,
                       processStatusCode, uploadVars, sessionsStatusCode,
                       pcapRequests, notPcap>>

\* The guard of processPcap without the validity flag.
ProcessRefusedWhenEmpty == fileValue = <<>>

ProcessRefused == fileValue = <<>> \/ ~isFileValid

processPcap ==
    IF ProcessRefused
    THEN /\ isFileFocused' = TRUE
         /\ UNCHANGED <<isFileValid, fileValue, processFlushAll, deleteOriginalFile,
                        processStatusCode, uploadVars, sessionsStatusCode,
                        pcapRequests, notPcap>>
    ELSE /\ Len(pcapRequests) < MaxPcapRequests
         /\ pcapRequests' = Append(pcapRequests, ProcessRequest)
         /\ UNCHANGED <<uploadVars, processVars, sessionsStatusCode, notPcap>>

\* The then branch of the local-file request: status, resetProcess,
\* loadSessions.
ProcessAccepted ==
    \E i \in Requests("/api/pcap/file") :
        /\ processStatusCode' = OK
        /\ isFileValid' = TRUE
        /\ isFileFocused' = FALSE
        /\ fileValue' = <<>>
        /\ processFlushAll' = FALSE
        /\ deleteOriginalFile' = FALSE
        /\ pcapRequests' = Append(Without(pcapRequests, i), SessionsRequest)
        /\ UNCHANGED <<uploadVars, sessionsStatusCode, notPcap>>

ProcessRejected ==
    \E i \in Requests("/api/pcap/file"), status \in StatusCodes :
        /\ processStatusCode' = status
        /\ pcapRequests' = Without(pcapRequests, i)
        /\ UNCHANGED <<isFileValid, isFileFocused, fileValue, processFlushAll,
                       deleteOriginalFile, uploadVars, sessionsStatusCode, notPcap>>

\* Both branches of loadSessions.
SessionsAnswered ==
    \E i \in Requests("/api/pcap/sessions"), status \in {OK} \cup StatusCodes :
        /\ sessionsStatusCode' = status
        /\ pcapRequests' = Without(pcapRequests, i)
        /\ UNCHANGED <<uploadVars, processVars, notPcap>>

InitPcap ==
    /\ PcapMounted
    /\ ReaderIdle
    /\ ValidationIdle
    /\ ConfigurationConstructed
    /\ ConnectionsUnmounted
    /\ ContentConstructed

NextPcap ==
    \/ handleUploadFileChange
    \/ ChangeUploadFlushAll
    \/ uploadPcap
    \/ UploadAccepted
    \/ UploadRejected
    \/ handleFileChange
    \/ ChangeProcessFlushAll
    \/ ChangeDeleteOriginalFile
    \/ processPcap
    \/ ProcessAccepted
    \/ ProcessRejected
    \/ SessionsAnswered

SpecPcap == InitPcap /\ [][NextPcap]_vars

(***************************************************************************)
(* Connections (src/frontend/src/views/Connections.js): the list of        *)
(* connections, loaded page by page, and its filters.                      *)
(*                                                                         *)
(* A search string is a sequence of tokens: <<"?">>, <<"&">> and           *)
(* <<name, value>>.  The two limits of the view are scaled down.           *)
(***************************************************************************)
maxConnections == 3
queryLimit == 2
MaxRows == 6
MaxParams == 2
MaxLoads == 2

RuleIds == {"r1", "r2"}
ServicePorts == {"80"}

Question == <<"?">>
Ampersand == <<"&">>

ParamInputs ==
    {<<"matched_rules", r>> : r \in RuleIds}
        \cup {<<"service_port", sp>> : sp \in ServicePorts}

\* new URLSearchParams(search): the name-value pairs of the string, in order.
URLSearchParams(search) == SelectSeq(search, LAMBDA t : Len(t) = 2)

\* urlParams.toString(): the pairs joined by "&".
RECURSIVE toString(_)
toString(params) ==
    IF Len(params) <= 1
    THEN params
    ELSE <<Head(params), Ampersand>> \o toString(Tail(params))

getAll(params, name) ==
    LET named == SelectSeq(params, LAMBDA t : t[1] = name)
    IN  [i \in 1..Len(named) |-> named[i][2]]

\* includes that finds nothing.
includesNothing(values, v) == FALSE

includes(values, v) == \E i \in 1..Len(values) : values[i] = v

paramsAppend(params, name, value) == Append(params, <<name, value>>)

\* urlParams.set: the first pair of that name takes the value and the others
\* go; without such a pair the pair is appended.
paramsSet(params, name, value) ==
    IF \A i \in 1..Len(params) : params[i][1] # name
    THEN Append(params, <<name, value>>)
    ELSE LET first == CHOOSE i \in 1..Len(params) :
                          /\ params[i][1] = name
                          /\ \A j \in 1..(i - 1) : params[j][1] # name
         IN  SubSeq(params, 1, first - 1) \o <<<<name, value>>>>
                \o SelectSeq(SubSeq(params, first + 1, Len(params)),
                              LAMBDA t : t[1] # name)

\* "?" + urlParams
WithQuestion(params) == <<Question>> \o toString(params)

\* location.search of the page the view is opened on: empty, or "?" and
\* at most MaxParams pairs.
SearchInputs ==
    {IF ps = <<>> THEN <<>> ELSE WithQuestion(ps)
        : ps \in UNION {[1..n -> ParamInputs] : n \in 0..MaxParams}}

\* The search of the location a Redirect pushes; a lone "?" is no search.
NormalSearch(str) == IF str = <<Question>> THEN <<>> ELSE str

\* The rows of the backend and the rules each of them matched.
RowIds == 1..MaxRows
RowRules(id) == IF id % 2 = 0 THEN {"r1", "r2"} ELSE {"r1"}

Matching(search) ==
    LET wanted == getAll(URLSearchParams(search), "matched_rules")
    IN  {id \in RowIds : \A i \in 1..Len(wanted) : wanted[i] \in RowRules(id)}

Take(seq, n) == SubSeq(seq, 1, IF n < Len(seq) THEN n ELSE Len(seq))
Reverse(seq) == [i \in 1..Len(seq) |-> seq[Len(seq) + 1 - i]]

\* GET /api/connections: rows after `from` ascending, rows before `to`
\* descending, else the first rows ascending; at most `limit` of them.
Answer(params, search) ==
    LET ascending == SelectSeq([id \in RowIds |-> id],
                               LAMBDA id : id \in Matching(search))
    IN  IF params.from # <<>>
        THEN Take(SelectSeq(ascending, LAMBDA id : id > params.from[1]), params.limit)
        ELSE IF params.to # <<>>
        THEN Take(Reverse(SelectSeq(ascending, LAMBDA id : id < params.to[1])),
                  params.limit)
        ELSE Take(ascending, params.limit)

Params(from, to) == [from |-> from, to |-> to, limit |-> queryLimit]

\* A call of loadConnections at its first await (line 89).
NewLoad(params, search, mount) ==
    [params |-> params, search |-> search, mount |-> mount, phase |-> "connections",
     connections |-> <<>>, firstConnection |-> <<>>, lastConnection |-> <<>>]

\* A slice that cuts nothing.
sliceNothing(seq, begin, end) == seq

\* Array.prototype.slice for 0 <= begin <= end <= length.
slice(seq, begin, end) == SubSeq(seq, begin + 1, end)

ElementAt(seq, i) == IF i \in 1..Len(seq) THEN <<seq[i]>> ELSE <<>>

\* Lines 91-124: the list and its two edges after the answer `res`.
Merged(params, res) ==
    LET unchanged == [connections |-> connections,
                      firstConnection |-> firstConnection,
                      lastConnection |-> lastConnection]
    IN  IF params.from # <<>>
        THEN IF Len(res) > 0
             THEN LET all == connections \o res
                      last == ElementAt(all, Len(all))
                  IN  IF Len(all) > maxConnections
                      THEN LET cut == slice(all, Len(all) - maxConnections, Len(all) - 1)
                           IN  [connections |-> cut,
                                firstConnection |-> ElementAt(cut, 1),
                                lastConnection |-> last]
                      ELSE [connections |-> all,
                            firstConnection |-> firstConnection,
                            lastConnection |-> last]
             ELSE unchanged
        ELSE IF params.to # <<>>
        THEN IF Len(res) > 0
             THEN LET all == res \o connections
                      first == ElementAt(all, 1)
                  IN  IF Len(all) > maxConnections
                      THEN LET cut == slice(all, 0, maxConnections)
                           IN  [connections |-> cut,
                                firstConnection |-> first,
                                lastConnection |-> ElementAt(cut, maxConnections)]
                      ELSE [connections |-> all,
                            firstConnection |-> first,
                            lastConnection |-> lastConnection]
             ELSE unchanged
        ELSE IF Len(res) > 0
             THEN [connections |-> res,
                   firstConnection |-> ElementAt(res, 1),
                   lastConnection |-> ElementAt(res, Len(res))]
             ELSE [connections |-> <<>>, firstConnection |-> <<>>,
                   lastConnection |-> <<>>]

notConnections == <<reader, validationVars, configurationVars, pcapVars, contentVars>>

\* Lines 131-137, and the then of componentDidMount for the first load.
Commit(i, m, loadedRules) ==
    /\ loading' = FALSE
    /\ connections' = m.connections
    /\ firstConnection' = m.firstConnection
    /\ lastConnection' = m.lastConnection
    /\ rules' = loadedRules
    /\ loaded' = (loaded \/ loads[i].mount)
    /\ loads' = Without(loads, i)
    /\ UNCHANGED <<locationSearch, queryString, selected, notConnections>>

\* The answer of GET /api/connections arrives: lines 89-126, and 131-137
\* when the rules are there already.
ReceiveConnections ==
    \E i \in 1..Len(loads) :
        /\ loads[i].phase = "connections"
        /\ LET m == Merged(loads[i].params, Answer(loads[i].params, loads[i].search))
           IN  IF rules = null
               THEN /\ loads' = [loads EXCEPT ![i] =
                                    [@ EXCEPT !.phase = "rules",
                                              !.connections = m.connections,
                                              !.firstConnection = m.firstConnection,
                                              !.lastConnection = m.lastConnection]]
                    /\ UNCHANGED <<locationSearch, loading, loaded, connections,
                                   firstConnection, lastConnection, rules,
                                   queryString, selected, notConnections>>
               ELSE Commit(i, m, rules)

\* The answer of GET /api/rules arrives: lines 128-137.
ReceiveRules ==
    \E i \in 1..Len(loads) :
        /\ loads[i].phase = "rules"
        /\ Commit(i, loads[i], "rules")

\* Lines 82-89: loading is set and the request leaves.
loadConnections(params, search) ==
    /\ Len(loads) < MaxLoads
    /\ loading' = TRUE
    /\ loads' = Append(loads, NewLoad(params, search, FALSE))

\* handleScroll at the bottom or at the top of the list.
handleScroll ==
    \E position \in {"bottom", "top"} :
        /\ ~loading
        /\ IF position = "bottom"
           THEN /\ lastConnection # <<>>
                /\ loadConnections(Params(lastConnection, <<>>), locationSearch)
           ELSE /\ firstConnection # <<>>
                /\ loadConnections(Params(<<>>, firstConnection), locationSearch)
        /\ UNCHANGED <<locationSearch, loaded, connections, firstConnection,
                       lastConnection, rules, queryString, selected, notConnections>>

\* render and componentDidUpdate after a handler left queryString qs and
\* selected sel: with a selection the Redirect pushes the location whose
\* search is the query string, and a changed search reloads the list once
\* the first load is over.
Rendered(qs, sel) ==
    LET target == IF sel
                  THEN NormalSearch(IF qs = <<>> THEN <<>> ELSE qs[1])
                  ELSE locationSearch
    IN  /\ locationSearch' = target
        /\ selected' = sel
        /\ IF loaded /\ target # locationSearch
           THEN /\ queryString' = <<target>>
                /\ loadConnections(Params(<<>>, <<>>), target)
           ELSE /\ queryString' = qs
                /\ UNCHANGED <<loading, loads>>
        /\ UNCHANGED <<loaded, connections, firstConnection, lastConnection, rules,
                       notConnections>>

connectionSelected ==
    /\ connections # <<>>
    /\ Rendered(queryString, TRUE)

addServicePortFilter(sp) ==
    LET urlParams == paramsSet(URLSearchParams(locationSearch), "service_port", sp)
    IN  Rendered(<<WithQuestion(urlParams)>>, selected)

addMatchedRulesFilter(matchedRule) ==
    LET urlParams == URLSearchParams(locationSearch)
        oldMatchedRules == getAll(urlParams, "matched_rules")
    IN  IF ~includes(oldMatchedRules, matchedRule)
        THEN Rendered(<<WithQuestion(paramsAppend(urlParams, "matched_rules",
                                                  matchedRule))>>,
                      selected)
        ELSE UNCHANGED vars

\* The view after componentDidMount: the first load is at its await; a
\* view opened on a connection has pushed that connection's location.
InitConnections ==
    /\ \E search \in SearchInputs, initialConnection \in BOOLEAN :
          /\ selected = initialConnection
          /\ locationSearch = (IF initialConnection THEN <<>> ELSE search)
          /\ loads = <<NewLoad(Params(<<>>, <<>>), search, TRUE)>>
    /\ loading = TRUE /\ loaded = FALSE
    /\ connections = <<>>
    /\ firstConnection = <<>> /\ lastConnection = <<>>
    /\ rules = null
    /\ queryString = <<>>
    /\ ReaderIdle
    /\ ValidationIdle
    /\ ConfigurationConstructed
    /\ PcapConstructed
    /\ ContentConstructed

NextConnections ==
    \/ handleScroll
    \/ ReceiveConnections
    \/ ReceiveRules
    \/ connectionSelected
    \/ \E sp \in ServicePorts : addServicePortFilter(sp)
    \/ \E r \in RuleIds : addMatchedRulesFilter(r)

SpecConnections == InitConnections /\ [][NextConnections]_vars

(***************************************************************************)
(* ConnectionContent (src/unnamed/part_002, lines 102-258): the messages   *)
(* of the selected connection in the chosen format.                        *)
(***************************************************************************)
MaxStreamRequests == 3

ConnectionInputs == {1, 2}
validFormats == {"default", "hex", "ascii"}
FormatInputs == validFormats \cup {"rot13"}

notContent == <<reader, validationVars, configurationVars, pcapVars, connectionsVars>>

\* GET /api/streams/id?format=...: what the request asks for, and the body
\* of its response.
StreamRequest(id, fmt) == [connection |-> id, format |-> fmt]

\* Lines 131-134: loading is set and the request leaves.
loadStream(id, fmt) ==
    /\ Len(streamRequests) < MaxStreamRequests
    /\ contentLoading' = TRUE
    /\ streamRequests' = Append(streamRequests, StreamRequest(id, fmt))

\* The parent passes another connection: componentDidUpdate, lines 124-129.
ConnectionChanged ==
    \E id \in ConnectionInputs :
        /\ connection # <<id>>
        /\ connection' = <<id>>
        /\ loadStream(id, contentFormat)
        /\ UNCHANGED <<contentFormat, connectionContent, notContent>>

\* setFormat, lines 142-146, and the componentDidUpdate that follows.
setFormat ==
    \E fmt \in FormatInputs :
        /\ fmt \in validFormats
        /\ contentFormat' = fmt
        /\ IF connection # <<>> /\ fmt # contentFormat
           THEN loadStream(connection[1], fmt)
           ELSE UNCHANGED <<contentLoading, streamRequests>>
        /\ UNCHANGED <<connection, connectionContent, notContent>>

\* The then of backend.get, lines 134-139, for any request in flight.
StreamAnswered ==
    \E i \in 1..Len(streamRequests) :
        /\ connectionContent' = <<streamRequests[i]>>
        /\ contentLoading' = FALSE
        /\ streamRequests' = Without(streamRequests, i)
        /\ UNCHANGED <<connection, contentFormat, notContent>>

\* The component after componentDidMount, lines 104-122.
InitContent ==
    /\ connection \in {<<>>} \cup {<<id>> : id \in ConnectionInputs}
    /\ contentFormat = "default"
    /\ connectionContent = <<>>
    /\ contentLoading = (connection # <<>>)
    /\ streamRequests = (IF connection = <<>> THEN <<>>
                         ELSE <<StreamRequest(connection[1], "default")>>)
    /\ ReaderIdle
    /\ ValidationIdle
    /\ ConfigurationConstructed
    /\ PcapConstructed
    /\ ConnectionsUnmounted

NextContent == ConnectionChanged \/ setFormat \/ StreamAnswered

SpecContent == InitContent /\ [][NextContent]_vars

(***************************************************************************)
(* Vocabulary of the properties.                                           *)
(***************************************************************************)
Sides == BOOLEAN

DocsOf(fromClient) == {d \in store : d.FromClient = fromClient}

DocAt(fromClient, documentIndex) ==
    CHOOSE d \in DocsOf(fromClient) : d.DocumentIndex = documentIndex

\* A side's bytes: its chunk payloads in document_index order.
SideBytes(fromClient) ==
    Flatten([i \in 1..Cardinality(DocsOf(fromClient)) |->
                DocAt(fromClient, i - 1).Payload])

\* A side's blocks, <<document_index, block position>>, in stored order.
SideBlocks(fromClient) ==
    Flatten([i \in 1..Cardinality(DocsOf(fromClient)) |->
                [b \in 1..Len(DocAt(fromClient, i - 1).BlocksIndexes) |-> <<i - 1, b - 1>>]])

StoredBlocks == Len(SideBlocks(TRUE)) + Len(SideBlocks(FALSE))
StoredBytes == Len(SideBytes(TRUE)) + Len(SideBytes(FALSE))

\* The history entries of the returned Payloads, in returned order.
Returned == [i \in 1..Len(payloads) |-> merged[payloads[i]]]

ReturnedOf(fromClient) == SelectSeq(Returned, LAMBDA m : m.FromClient = fromClient)

ResultOf(fromClient) == SelectSeq(Result, LAMBDA x : x.FromClient = fromClient)

RECURSIVE SumSizes(_, _)
SumSizes(ms, n) == IF n = 0 THEN 0 ELSE SumSizes(ms, n - 1) + Len(ms[n].Raw)

\* Every stored range of a side, whatever document holds it.
StoredRanges(fromClient) ==
    UNION {UNION {{d.PatternMatches[p][k] : k \in 1..Len(d.PatternMatches[p])}
                    : p \in DOMAIN d.PatternMatches} : d \in DocsOf(fromClient)}

Max(a, b) == IF a >= b THEN a ELSE b
Min(a, b) == IF a <= b THEN a ELSE b

C2_IndexStrictlyIncreasing ==
    /\ \A i \in 1..Len(payloads) : Result[i].Index = Returned[i].From
    /\ \A side \in Sides :
          \A i, j \in 1..Len(ResultOf(side)) :
              i < j => ResultOf(side)[i].Index < ResultOf(side)[j].Index

(***************************************************************************)
(* C3: with skip = 0 and a limit of at least the stored bytes, the call    *)
(* returns one Payload per stored block; per side the returned Payloads    *)
(* are the side's blocks in (document_index, block) order and their raw    *)
(* bytes concatenate to the side's chunk payloads in document_index order. *)
(***************************************************************************)
C3_AllBlocksInOrder ==
    (pc = "returned" /\ query.Skip = 0 /\ format.Limit >= StoredBytes) =>
        /\ Len(payloads) = StoredBlocks
        /\ \A side \in Sides :
              /\ [i \in 1..Len(ReturnedOf(side)) |->
                     <<ReturnedOf(side)[i].DocumentIndex, ReturnedOf(side)[i].Block>>]
                   = SideBlocks(side)
              /\ Flatten([i \in 1..Len(ReturnedOf(side)) |-> ReturnedOf(side)[i].Raw])
                   = SideBytes(side)

C3_Witness ==
    /\ pc = "returned" /\ query.Skip = 0 /\ format.Limit >= StoredBytes
    /\ Cardinality(DocsOf(TRUE)) = 2 /\ Cardinality(DocsOf(FALSE)) = 2
    /\ Len(payloads) = StoredBlocks
    /\ StoredBlocks > 4
    /\ \E i \in 1..(Len(payloads) - 2) :
          /\ Result[i].FromClient /\ ~Result[i + 1].FromClient
          /\ Result[i + 2].FromClient

(***************************************************************************)
(* C4: with globalIndex the running sum of the block sizes in merge order, *)
(* the call returns exactly the blocks whose cumulative end is greater     *)
(* than skip, up to and including the first block whose cumulative end is  *)
(* greater than skip + limit.                                              *)
(***************************************************************************)
C4_Window ==
    pc = "returned" =>
        LET n == Len(merged)
            window == format.Skip + format.Limit
        IN  /\ \A i \in 1..n : merged[i].End = SumSizes(merged, i)
            /\ payloads = SelectSeq([i \in 1..n |-> i],
                                    LAMBDA i : merged[i].End > format.Skip)
            /\ \A i \in 1..(n - 1) : merged[i].End <= window
            /\ (n = 0 \/ merged[n].End <= window) => n = StoredBlocks

C4_Witness ==
    /\ pc = "returned"
    /\ Len(payloads) >= 2
    /\ payloads[1] > 1
    /\ Len(merged) < StoredBlocks
    /\ merged[payloads[1]].End > format.Skip + 1


(***************************************************************************)
(* C5: a second call with the same connection and query on unchanged data  *)
(* returns the same list as the first, the order inside every              *)
(* regex_matches included.                                                 *)
(***************************************************************************)
C5_SameListOnRetry ==
    (pc = "returned" /\ previous # {}) => previous = {Result}

(***************************************************************************)
(* C6: every stored range of a side that overlaps a block's flow-global    *)
(* byte range is reported in that block's regex_matches, whichever         *)
(* document of the side stores the range.                                  *)
(***************************************************************************)
C6_OverlapsReported ==
    \A i \in 1..Len(heap) :
        LET from == merged[i].From
            to == merged[i].From + Len(merged[i].Raw)
        IN  \A r \in StoredRanges(heap[i].FromClient) :
                (r[1] < to /\ from < r[2]) =>
                    \E k \in 1..Len(heap[i].RegexMatches) :
                        /\ heap[i].RegexMatches[k].From = Max(r[1], from) - from
                        /\ heap[i].RegexMatches[k].To = Min(r[2], to) - from

(***************************************************************************)
(* C7: for stored ranges (s, e) with s <= e, every entry of a block's      *)
(* regex_matches satisfies 0 <= from <= to <= block length; no subtraction *)
(* wraps.                                                                  *)
(***************************************************************************)
C7_EntriesInsideBlock ==
    \A i \in 1..Len(heap) :
        \A k \in 1..Len(heap[i].RegexMatches) :
            /\ 0 <= heap[i].RegexMatches[k].From
            /\ heap[i].RegexMatches[k].From <= heap[i].RegexMatches[k].To
            /\ heap[i].RegexMatches[k].To <= Len(merged[i].Raw)

C7_Witness ==
    \E i \in 1..Len(heap) :
        /\ Len(merged[i].Raw) = 2
        /\ merged[i].From > 0
        /\ \E k, l \in 1..Len(heap[i].RegexMatches) :
              /\ heap[i].RegexMatches[k] = [From |-> 0, To |-> 1]
              /\ heap[i].RegexMatches[l] = [From |-> 1, To |-> 1]
        /\ \E r \in StoredRanges(heap[i].FromClient) : r[1] = r[2]

(***************************************************************************)
(* C8: with stored ranges 0 <= s < e, every entry of a block's             *)
(* regex_matches is non-empty (from < to) and comes from a stored range    *)
(* that shares a byte with the block.                                      *)
(***************************************************************************)
C8_EntriesNonEmpty ==
    \A i \in 1..Len(heap) :
        LET from == merged[i].From
            to == merged[i].From + Len(merged[i].Raw)
        IN  \A k \in 1..Len(heap[i].RegexMatches) :
                /\ heap[i].RegexMatches[k].From < heap[i].RegexMatches[k].To
                /\ \E r \in StoredRanges(heap[i].FromClient) :
                      /\ r[1] < to /\ from < r[2]
                      /\ heap[i].RegexMatches[k].From = Max(r[1], from) - from
                      /\ heap[i].RegexMatches[k].To = Min(r[2], to) - from

(***************************************************************************)
(* C9 as stated: in the returned list, the first Payload of every maximal  *)
(* run of one side is no continuation and every later one is.              *)
(***************************************************************************)
C9_RunsOfReturnedList ==
    pc = "returned" =>
        \A i \in 1..Len(payloads) :
            Result[i].IsMetadataContinuation
                = (i > 1 /\ Result[i - 1].FromClient = Result[i].FromClient)

(***************************************************************************)
(* C9 amended: a returned Payload is a continuation exactly when the block *)
(* merged immediately before it, returned or left out by skip, is of the   *)
(* same side.                                                              *)
(***************************************************************************)
C9_RunsOfMergedBlocks ==
    pc = "returned" =>
        \A i \in 1..Len(payloads) :
            Result[i].IsMetadataContinuation
                = (payloads[i] > 1
                   /\ heap[payloads[i] - 1].FromClient = Result[i].FromClient)

C9_Witness ==
    /\ pc = "returned"
    /\ Len(payloads) >= 3
    /\ payloads[1] > 1
    /\ Result[1].IsMetadataContinuation
    /\ ~Result[2].IsMetadataContinuation
    /\ Result[3].IsMetadataContinuation
    /\ Len(merged) < StoredBlocks

(***************************************************************************)
(* C10: a call whose store read is cancelled still returns a list (the     *)
(* prefix accumulated so far, or the empty list); it never ends without a  *)
(* result.                                                                 *)
(***************************************************************************)
C10_CancelledCallReturns ==
    pc # "storePanic"

(***************************************************************************)
(* C11: when a stored row's blocks_indexes, blocks_timestamps and          *)
(* blocks_loss are not all of the same length, the call ends with an error *)
(* and returns no Payload built from that row.                             *)
(***************************************************************************)
BlockArraysAgree(d) ==
    /\ Len(d.BlocksIndexes) = Len(d.BlocksTimestamps)
    /\ Len(d.BlocksIndexes) = Len(d.BlocksLoss)

C11_MismatchHalts ==
    pc = "returned" =>
        \A i \in 1..Len(payloads) :
            BlockArraysAgree(DocAt(Returned[i].FromClient, Returned[i].DocumentIndex))

(***************************************************************************)
(* C19: when the call returns, every returned Payload carries the Metadata *)
(* parsed from the raw bytes, in merge order, of all blocks of its         *)
(* same-side run, and every run was handed to the parser exactly once (at  *)
(* the side flip, at the end of both streams or at the limit).             *)
(***************************************************************************)
SameSide(i, j) == merged[i].FromClient = merged[j].FromClient

RunStart(i) ==
    CHOOSE j \in 1..i :
        /\ \A k \in j..i : SameSide(k, i)
        /\ (j = 1 \/ ~SameSide(j - 1, i))

RunEnd(i) ==
    CHOOSE j \in i..Len(merged) :
        /\ \A k \in i..j : SameSide(k, i)
        /\ (j = Len(merged) \/ ~SameSide(j + 1, i))

RunBytes(i) == Flatten([k \in 1..(RunEnd(i) - RunStart(i) + 1) |->
                           merged[RunStart(i) + k - 1].Raw])

RunPointers(i) == [k \in 1..(RunEnd(i) - RunStart(i) + 1) |-> RunStart(i) + k - 1]

RunStarts == SelectSeq([i \in 1..Len(merged) |-> i], LAMBDA i : RunStart(i) = i)

DenotesInteger(str) ==
    LET unsigned == IF str # <<>> /\ Head(str) = "-" THEN Tail(str) ELSE str
    IN  unsigned # <<>> /\ LeadingDigits(unsigned) = unsigned

C13_PortRange ==
    portResult # <<>> =>
        (portResult[1] <=>
            /\ DenotesInteger(port)
            /\ parseInt(port).value >= (IF required THEN 1 ELSE 0)
            /\ parseInt(port).value <= 65535)

\* The same for the texts that are integer literals.
C13_PortRangeOfIntegers ==
    (portResult # <<>> /\ DenotesInteger(port)) =>
        (portResult[1] <=>
            /\ parseInt(port).value >= (IF required THEN 1 ELSE 0)
            /\ parseInt(port).value <= 65535)

(***************************************************************************)
(* C14: a POST /setup is sent only with a server_address that is a valid   *)
(* IPv4 or IPv6 address.                                                   *)
(***************************************************************************)
\* The texts of AddressInputs that an IP address parser accepts.
ParseableIP(address) == address \in {"10.0.0.1", "::1"}

C14_AddressChecked ==
    \A i \in 1..Len(setupRequests) :
        ParseableIP(setupRequests[i].config.server_address)

(***************************************************************************)
(* C15: a POST /setup is sent only with a flag_regex of length >= 8; a     *)
(* save with a shorter flag_regex sets flagRegexError and sends nothing,   *)
(* whatever server_address and auth_required are.                          *)
(***************************************************************************)
C15_FlagRegexChecked ==
    [][/\ setupRequests' # setupRequests /\ Len(setupRequests') > Len(setupRequests)
            => /\ Len(settings.config.flag_regex) >= 8
               /\ setupRequests' = Append(setupRequests, settings)
       /\ (saveSettings /\ Len(settings.config.flag_regex) < 8)
            => /\ flagRegexError' = "flag_regex.length < 8"
               /\ setupRequests' = setupRequests]_vars

C15_Witness ==
    /\ flagRegexError = "flag_regex.length < 8"
    /\ Len(setupRequests) = 1
    /\ Len(setupRequests[1].config.flag_regex) = 8
    /\ setupRequests[1].config.auth_required

(***************************************************************************)
(* C17: POST /api/pcap/upload is sent only while a file is selected and    *)
(* marked valid, POST /api/pcap/file only while the path is non-empty,     *)
(* marked valid and ends with pcap or pcapng; a refused click sends        *)
(* nothing and changes the field's focused flag only; a request sent       *)
(* carries the form values of that moment.                                 *)
(***************************************************************************)
\* The request a step puts in flight behind the others, if it does.
Sent ==
    IF pcapRequests' # <<>> /\ pcapRequests' = Append(pcapRequests, pcapRequests'[Len(pcapRequests')])
    THEN {pcapRequests'[Len(pcapRequests')]}
    ELSE {}

C17_PcapRequestsGuarded ==
    [][/\ \A r \in Sent :
             /\ r.url = "/api/pcap/upload" =>
                    /\ uploadSelectedFile # <<>> /\ isUploadFileValid
                    /\ r.body = [file |-> uploadSelectedFile[1],
                                 flush_all |-> uploadFlushAll]
             /\ r.url = "/api/pcap/file" =>
                    /\ fileValue # <<>> /\ isFileValid
                    /\ endsWith(fileValue, pcap) \/ endsWith(fileValue, pcapng)
                    /\ r.body = [file |-> fileValue, flush_all |-> processFlushAll,
                                 delete_original_file |-> deleteOriginalFile]
       /\ (uploadPcap /\ (uploadSelectedFile = <<>> \/ ~isUploadFileValid)) =>
             /\ isUploadFileFocused'
             /\ UNCHANGED <<uploadSelectedFile, isUploadFileValid, uploadFlushAll,
                            uploadStatusCode, processVars, sessionsStatusCode, pcapRequests>>
       /\ (processPcap /\ (fileValue = <<>> \/ ~isFileValid)) =>
             /\ isFileFocused'
             /\ UNCHANGED <<isFileValid, fileValue, processFlushAll, deleteOriginalFile,
                            processStatusCode, uploadVars, sessionsStatusCode, pcapRequests>>
      ]_vars

C17_Witness ==
    /\ isUploadFileFocused /\ uploadSelectedFile # <<>> /\ ~isUploadFileValid
    /\ \E i \in Requests("/api/pcap/file") :
          /\ pcapRequests[i].body.file = <<"a", ".">> \o pcapng
          /\ pcapRequests[i].body.delete_original_file
          /\ ~pcapRequests[i].body.flush_all

(***************************************************************************)
(* C16: state.connections is ordered by id ascending, without duplicates,  *)
(* after any sequence of loads.                                            *)
(***************************************************************************)
C16_AscendingNoDuplicates ==
    \A i, j \in 1..Len(connections) :
        i < j => connections[i] < connections[j]

(***************************************************************************)
(* C20: when state.connections is non-empty, state.firstConnection is its  *)
(* first element and state.lastConnection its last.                        *)
(***************************************************************************)
C20_EdgesOfTheList ==
    connections # <<>> =>
        /\ firstConnection = <<connections[1]>>
        /\ lastConnection = <<connections[Len(connections)]>>

(***************************************************************************)
(* C18: addMatchedRulesFilter(r), called with a rule r that is not among   *)
(* the matched_rules of the URL, yields a query string whose matched_rules *)
(* are those of the URL, in their order, followed by r; called with a rule *)
(* that is among them, it changes nothing.                                 *)
(***************************************************************************)
MatchedRules(search) == getAll(URLSearchParams(search), "matched_rules")

Count(values, v) == Cardinality({i \in 1..Len(values) : values[i] = v})

C18_AddsAbsentRuleOnly ==
    [][\A r \in RuleIds :
          addMatchedRulesFilter(r) =>
              LET before == MatchedRules(locationSearch)
              IN  IF Count(before, r) = 0
                  THEN /\ queryString' # <<>>
                       /\ MatchedRules(queryString'[1]) = Append(before, r)
                  ELSE UNCHANGED connectionsVars]_vars

\* A URL with a service port and one rule, and the query string of the
\* view after the other rule was added to it.
C18_Witness ==
    /\ locationSearch = WithQuestion(<<<<"service_port", "80">>,
                                       <<"matched_rules", "r1">>>>)
    /\ queryString = <<WithQuestion(<<<<"service_port", "80">>,
                                      <<"matched_rules", "r1">>,
                                      <<"matched_rules", "r2">>>>)>>

(***************************************************************************)
(* C18 as stated: the query string addMatchedRulesFilter(r) yields keeps   *)
(* every matched_rules of the URL and holds r exactly once, a call with a  *)
(* rule of the URL changes nothing, and no rule is duplicated in it.       *)
(***************************************************************************)
C18_NeverDuplicated ==
    [][\A r \in RuleIds :
          addMatchedRulesFilter(r) =>
              LET before == MatchedRules(locationSearch)
                  after == IF Count(before, r) = 0 /\ queryString' # <<>>
                           THEN MatchedRules(queryString'[1])
                           ELSE MatchedRules(locationSearch')
              IN  /\ Len(after) >= Len(before)
                  /\ SubSeq(after, 1, Len(before)) = before
                  /\ Count(after, r) = 1
                  /\ Count(before, r) > 0 => UNCHANGED connectionsVars
                  /\ \A q \in RuleIds : Count(after, q) <= 1]_vars

(***************************************************************************)
(* C21: state.connections never holds more than maxConnections entries.    *)
(***************************************************************************)
C21_AtMostMaxConnections == Len(connections) <= maxConnections

\* A full list whose head is a `to` answer: the concatenation was longer
\* than maxConnections and was cut.
C21_Witness ==
    /\ ~loading
    /\ Len(connections) = maxConnections
    /\ connections[1] > connections[2]
    /\ lastConnection = <<connections[maxConnections]>>

(***************************************************************************)
(* C22: state.loading is true whenever a loadConnections request awaits    *)
(* its response, at most one load is in flight, and no `from`/`to` request *)
(* issued for an earlier query string is in flight (to be merged into the  *)
(* list of the present one).                                               *)
(***************************************************************************)
C22_OneLoadInFlight ==
    /\ loads # <<>> => loading
    /\ Len(loads) <= 1
    /\ \A i \in 1..Len(loads) :
          loads[i].params.from # <<>> \/ loads[i].params.to # <<>>
              => loads[i].search = locationSearch

(***************************************************************************)
(* C23: once no /api/streams request is outstanding,                       *)
(* state.connectionContent is the response for the selected connection and *)
(* the current format; state.loading is false only when no request is      *)
(* outstanding.                                                            *)
(***************************************************************************)
C23_ContentOfSelection ==
    /\ (streamRequests = <<>> /\ connection # <<>>)
          => connectionContent = <<StreamRequest(connection[1], contentFormat)>>
    /\ ~contentLoading => streamRequests = <<>>

(***************************************************************************)
(* C24: with rows that satisfy the data-model invariants, some of them     *)
(* without a block, the call never indexes a block array or a payload      *)
(* outside its bounds.                                                     *)
(***************************************************************************)
C24_NoIndexOutOfRange == pc # "indexPanic"

(***************************************************************************)
(* C26: for skip and limit whose sum exceeds the unsigned range, the call  *)
(* returns every block whose cumulative end is greater than skip and does  *)
(* not stop before a block whose cumulative end exceeds the mathematical   *)
(* sum skip + limit.                                                       *)
(***************************************************************************)
C26_WindowWithoutWrapAround ==
    pc = "returned" =>
        LET n == Len(merged)
        IN  /\ \A i \in 1..n : merged[i].End > query.Skip =>
                  \E k \in 1..Len(payloads) : payloads[k] = i
            /\ n < StoredBlocks =>
                  n > 0 /\ merged[n].End > query.Skip + EffectiveLimit(query.Limit)

(***************************************************************************)
(* C25: with at least one block in every stored document, the loop runs    *)
(* at most once per stored block: every iteration consumes one block of    *)
(* one side that no earlier iteration consumed, moving that side's cursor  *)
(* by one, and once every stored block is consumed the loop condition is   *)
(* false.                                                                  *)
(***************************************************************************)
\* The stored blocks of a side that lie before a cursor.
BlocksBeforeCursor(fromClient, documentIndex, blocksIndex) ==
    Cardinality(UNION {{<<d.DocumentIndex, k>> : k \in 1..Len(d.BlocksIndexes)}
                          : d \in {x \in DocsOf(fromClient) :
                                      x.DocumentIndex < documentIndex}})
        + blocksIndex

MergedOf(fromClient) == SelectSeq(merged, LAMBDA m : m.FromClient = fromClient)

C25_OneIterationPerBlock ==
    /\ Len(merged) <= StoredBlocks
    /\ \A i \in 1..Len(merged) :
          /\ \E d \in DocsOf(merged[i].FromClient) :
                /\ d.DocumentIndex = merged[i].DocumentIndex
                /\ merged[i].Block < Len(d.BlocksIndexes)
          /\ \A j \in 1..(i - 1) :
                <<merged[j].FromClient, merged[j].DocumentIndex, merged[j].Block>>
                    # <<merged[i].FromClient, merged[i].DocumentIndex, merged[i].Block>>
    /\ pc \in {"loop", "returned"} =>
          /\ Len(MergedOf(TRUE))
                = BlocksBeforeCursor(TRUE, clientDocumentIndex, clientBlocksIndex)
          /\ Len(MergedOf(FALSE))
                = BlocksBeforeCursor(FALSE, serverDocumentIndex, serverBlocksIndex)
    /\ (pc = "loop" /\ Len(merged) = StoredBlocks) =>
          clientStream.ID = ZeroID /\ serverStream.ID = ZeroID

\* A call that went through two documents of one side and a document of
\* the other, one iteration per block, to the end.
C25_Witness ==
    /\ pc = "returned"
    /\ StoredBlocks >= 4
    /\ Len(merged) = StoredBlocks
    /\ clientDocumentIndex = 2 /\ serverDocumentIndex >= 1

(***************************************************************************)
(* C12: a call with limit 0 (or no limit) returns the same Payload list as *)
(* the same call with limit = 8024.                                        *)
(***************************************************************************)
C12_DefaultLimit ==
    (pc = "returned" /\ previous # {} /\ query.Limit = DefaultQueryFormatLimit) =>
        previous = {Result}

\* The same comparison on the stores where no row holds two pattern ids, so
\* that findMatchesBetween has one visiting order only.
C12_SameWhenNoMapOrder ==
    (pc = "returned" /\ previous # {} /\ query.Limit = DefaultQueryFormatLimit
        /\ \A d \in store : Cardinality(DOMAIN d.PatternMatches) <= 1) =>
        previous = {Result}

====
